---- MODULE Spec2Model ----
(***************************************************************************)
(* Model of the dice widget's application root (App), its roll sequencer, *)
(* the dice-count control and the audio / speech side effects.            *)
(*                                                                         *)
(* React state (useState) is modelled by the committed values numDice,    *)
(* diceValues, isRolling and total; refs (useRef) by audioCtxRef and      *)
(* timerRef.  Event handlers run to completion and their batched state    *)
(* updates are committed before the next event, so every handler reads    *)
(* the committed state.  The passive effect keyed on numDice runs after   *)
(* the render that committed a new numDice and before any later event:    *)
(* effectPending marks that transition.                                   *)
(*                                                                         *)
(* The code reads the clock and startTimeRef only as the difference       *)
(* Date.now() - startTimeRef.current, taken inside animate; the model     *)
(* keeps that difference, elapsed, in place of the two values.            *)
(***************************************************************************)
EXTENDS Integers, Sequences, FiniteSets, TLC

\* ---- program constants -------------------------------------------------
MIN_DICE == 1
MAX_DICE == 8
ROLL_DURATION_MS == 1000
SHUFFLE_INTERVAL_MS == 80
\* getRandomValue draws from 1..SIDES
SIDES == 6
\* null of total (which holds a non-negative number otherwise)
NULL == -1

\* ---- bounds of the exploration -----------------------------------------
\* the user triggers a roll only with at most MaxRollDice dice
MaxRollDice == 1
\* a timer fires on time or up to MaxLate steps of 40 ms late
MaxLate == 1
\* largest |increment| handed to handleAdjustDice
MaxIncrement == 1

VARIABLES
    numDice,        \* useState numDice
    diceValues,     \* useState diceValues
    isRolling,      \* useState isRolling
    total,          \* useState total (NULL when absent)
    audioCtxRef,    \* "null" | "running" | "closed"
    timerRef,       \* id of the last scheduled timeout, 0 when null
    elapsed,        \* Date.now() - startTimeRef.current, 0 until a roll starts
    timers,         \* pending timeouts: records [id, n], n = numDice captured by the closure
    effectPending,  \* the effect keyed on numDice has yet to run
    mounted,        \* component is mounted
    audioAvailable, \* window.AudioContext || webkitAudioContext exists
    speechAvailable,\* 'speechSynthesis' in window
    error,          \* a TypeError was raised by a handler / effect
    lastOp,         \* history: the operation that ran last
    lastIncrement,  \* history: increment applied by the last step, 0 if it applied none
    isWin,          \* history: isWin handed to speakResult by the current roll: "none" | "win" | "lose"
    spoken,         \* history: that speakResult reached speechSynthesis.speak
    soundPlayed,    \* history: the last playShakeSound started a noise burst
    finalValues,    \* history: finalValues of the current roll, <<>> until it completes
    ctxCreated,     \* history: number of AudioContext objects constructed
    hadTotal        \* history: total was present when the current roll started

vars == <<numDice, diceValues, isRolling, total, audioCtxRef, timerRef,
          elapsed, timers, effectPending, mounted, audioAvailable,
          speechAvailable, error, lastOp, lastIncrement, isWin, spoken,
          soundPlayed, finalValues, ctxCreated, hadTotal>>

Faces == 1..SIDES
Increments == (-MaxIncrement)..MaxIncrement
Delays == {SHUFFLE_INTERVAL_MS + 40 * k : k \in 0..MaxLate}

RECURSIVE Sum(_)
Sum(s) == IF s = <<>> THEN 0 ELSE Head(s) + Sum(Tail(s))

RandomValuesZeroBased(n) == [1..n -> 0..(SIDES - 1)]

\* Array(n).fill(0).map(() => getRandomValue()): every possible outcome
RandomValues(n) == [1..n -> Faces]

\* ---- dice count control ------------------------------------------------
ClampNoUpper(newValue) ==
    IF newValue < MIN_DICE THEN MIN_DICE ELSE newValue

Clamp(newValue) ==
    IF newValue < MIN_DICE THEN MIN_DICE
    ELSE IF newValue > MAX_DICE THEN MAX_DICE
    ELSE newValue

\* initAudio: the ref after the call, and whether a context was constructed
InitAudioRef ==
    IF audioCtxRef = "null"
    THEN (IF audioAvailable THEN "running" ELSE "null")
    ELSE audioCtxRef

InitAudioCreates == audioCtxRef = "null" /\ audioAvailable

EffectTriggeredAlways(old, new) == TRUE

\* the dependency list [numDice] of the effect: it runs again only when a
\* render commits a numDice that differs from the previous one
EffectTriggered(old, new) == new # old

AdjustGuardNone == FALSE

\* the early return of handleAdjustDice
AdjustGuard == isRolling

handleAdjustDice(increment) ==
    /\ mounted /\ ~effectPending
    /\ lastOp' = "adjust"
    /\ IF AdjustGuard
       THEN /\ lastIncrement' = 0
            /\ UNCHANGED <<numDice, diceValues, isRolling, total, audioCtxRef,
                           timerRef, elapsed, timers, effectPending,
                           mounted, audioAvailable, speechAvailable, error,
                           isWin, spoken, soundPlayed, finalValues, ctxCreated,
                           hadTotal>>
       ELSE /\ lastIncrement' = increment
            /\ audioCtxRef' = InitAudioRef
            /\ ctxCreated' = IF InitAudioCreates THEN ctxCreated + 1 ELSE ctxCreated
            /\ numDice' = Clamp(numDice + increment)
            \* a changed numDice re-renders and schedules the effect keyed on it
            /\ effectPending' = EffectTriggered(numDice, numDice')
            /\ UNCHANGED <<diceValues, isRolling, total, timerRef, elapsed,
                           timers, mounted, audioAvailable, speechAvailable,
                           error, isWin, spoken, soundPlayed, finalValues, hadTotal>>

\* ---- effect keyed on numDice -------------------------------------------
ResizeKeepLast(prev, n) ==
    IF Len(prev) = n THEN prev
    ELSE IF Len(prev) < n
         THEN prev \o [i \in 1..(n - Len(prev)) |-> 1]
         ELSE SubSeq(prev, Len(prev) - n + 1, Len(prev))

\* the setDiceValues updater of the effect
Resize(prev, n) ==
    IF Len(prev) = n THEN prev
    ELSE IF Len(prev) < n
         THEN prev \o [i \in 1..(n - Len(prev)) |-> 1]
         ELSE SubSeq(prev, 1, n)

EffectTotalKeep(t) == t

EffectTotal(t) == NULL

numDiceEffect ==
    /\ mounted /\ effectPending
    /\ diceValues' = Resize(diceValues, numDice)
    /\ total' = EffectTotal(total)
    /\ effectPending' = FALSE
    /\ lastOp' = "effect"
    /\ lastIncrement' = 0
    /\ UNCHANGED <<numDice, isRolling, audioCtxRef, timerRef, elapsed,
                   timers, mounted, audioAvailable, speechAvailable, error,
                   isWin, spoken, soundPlayed, finalValues, ctxCreated, hadTotal>>

\* ---- roll sequencer ----------------------------------------------------
\* playShakeSound: returns early without a context, else starts one burst
PlayShakeSound(ctx) == ctx # "null"

\* window.setTimeout hands out an id that no pending timeout has; ids are
\* positive, so the ref is truthy once a tick was scheduled
NewTimerId(pend) ==
    CHOOSE i \in 1..(Cardinality(pend) + 1) : \A t \in pend : t.id # i

ScheduleTickNone(pend, n) == pend

\* window.setTimeout(animate, SHUFFLE_INTERVAL_MS): one more pending timeout,
\* whose closure keeps the numDice the roll started with
ScheduleTick(pend, n) == pend \cup {[id |-> NewTimerId(pend), n |-> n]}

FinalTotalOfShown(fv, shown) == Sum(shown)

\* finalValues.reduce((acc, val) => acc + val, 0)
FinalTotal(fv, shown) == Sum(fv)

IsWinStrict(finalTotal, n) == finalTotal > n * 3

\* const isWin = finalTotal >= (numDice * 3)
IsWinning(finalTotal, n) == finalTotal >= n * 3

\* if (elapsed < ROLL_DURATION_MS)
StillRolling(e) == e < ROLL_DURATION_MS

\* speakResult: returns early without speechSynthesis, else cancels and speaks
SpeakResult(w) ==
    /\ isWin' = IF w THEN "win" ELSE "lose"
    /\ spoken' = speechAvailable

\* the shuffle branch of animate
Shuffle(n, pend, ctx, rollingIn, totalIn, first) ==
    /\ soundPlayed' = PlayShakeSound(ctx)
    /\ diceValues' \in RandomValues(Len(diceValues))
    /\ timerRef' = NewTimerId(pend)
    /\ timers' = ScheduleTick(pend, n)
    /\ isRolling' = rollingIn
    /\ total' = totalIn
    /\ IF first
       THEN isWin' = "none" /\ spoken' = FALSE /\ finalValues' = <<>>
       ELSE UNCHANGED <<isWin, spoken, finalValues>>

\* the finish branch of animate
Finish(n, pend) ==
    /\ \E fv \in RandomValues(n) :
          /\ finalValues' = fv
          /\ diceValues' = fv
          /\ total' = FinalTotal(fv, diceValues)
          /\ SpeakResult(IsWinning(FinalTotal(fv, diceValues), n))
    /\ isRolling' = FALSE
    /\ timers' = pend
    /\ UNCHANGED <<timerRef, soundPlayed>>

\* animate, run e ms after the roll started by a closure that captured
\* numDice = n (first: the call made by rollDice itself, which opens the
\* roll's history)
Animate(n, e, pend, ctx, rollingIn, totalIn, first) ==
    IF StillRolling(e)
    THEN Shuffle(n, pend, ctx, rollingIn, totalIn, first)
    ELSE Finish(n, pend)

RollTotalKeep(t) == t

\* setTotal(null) of rollDice
RollTotal(t) == NULL

RollGuardNone == FALSE

\* the early return of rollDice
RollGuard == isRolling

rollDice ==
    /\ mounted /\ ~effectPending
    /\ isRolling \/ numDice <= MaxRollDice
    /\ IF RollGuard
       THEN /\ lastOp' = "roll"
            /\ UNCHANGED <<numDice, diceValues, isRolling, total, audioCtxRef,
                           timerRef, elapsed, timers, isWin, spoken,
                           soundPlayed, finalValues, ctxCreated, hadTotal>>
       ELSE /\ audioCtxRef' = InitAudioRef
            /\ ctxCreated' = IF InitAudioCreates THEN ctxCreated + 1 ELSE ctxCreated
            \* startTimeRef.current = Date.now(), read again by animate at once
            /\ elapsed' = 0
            /\ hadTotal' = (total # NULL)
            /\ Animate(numDice, elapsed', timers, audioCtxRef', TRUE,
                       RollTotal(total), TRUE)
            /\ lastOp' = IF isRolling' THEN "roll" ELSE "finish"
            /\ UNCHANGED numDice
    /\ lastIncrement' = 0
    /\ UNCHANGED <<effectPending, mounted, audioAvailable, speechAvailable, error>>

\* a pending timeout fires, d ms after it was scheduled, and runs animate
TimerFire ==
    \E t \in timers, d \in Delays :
       /\ elapsed' = elapsed + d
       /\ Animate(t.n, elapsed', timers \ {t}, audioCtxRef, isRolling, total, FALSE)
       /\ lastOp' = IF timers' # timers \ {t} THEN "tick" ELSE "finish"
       /\ lastIncrement' = 0
       /\ UNCHANGED <<numDice, audioCtxRef, effectPending, mounted,
                      audioAvailable, speechAvailable, error, ctxCreated, hadTotal>>

\* ---- teardown ----------------------------------------------------------
ClearTimeoutNone(pend, ref) == pend

\* if (timerRef.current) clearTimeout(timerRef.current)
ClearTimeout(pend, ref) ==
    IF ref # 0 THEN {t \in pend : t.id # ref} ELSE pend

CloseAudioNone(ref) == ref

\* if (audioCtxRef.current) audioCtxRef.current.close()
CloseAudio(ref) == IF ref # "null" THEN "closed" ELSE ref

\* window.speechSynthesis.cancel() with no presence check
CleanupSpeechThrows == ~speechAvailable

Unmount ==
    /\ mounted /\ ~effectPending
    /\ mounted' = FALSE
    /\ timers' = ClearTimeout(timers, timerRef)
    /\ audioCtxRef' = CloseAudio(audioCtxRef)
    /\ error' = (error \/ CleanupSpeechThrows)
    /\ lastOp' = "unmount"
    /\ lastIncrement' = 0
    /\ UNCHANGED <<numDice, diceValues, isRolling, total, timerRef, elapsed,
                   effectPending, audioAvailable, speechAvailable, isWin,
                   spoken, soundPlayed, finalValues, ctxCreated, hadTotal>>

\* ---- render ----------------------------------------------------------
\* const isLucky = total !== null && total >= (numDice * 3)
IsLucky == total # NULL /\ total >= numDice * 3

\* the Results Area shows the total and the verdict
ResultShown == total # NULL /\ ~isRolling

\* ---- specification -----------------------------------------------------
Init ==
    /\ numDice = 1
    /\ diceValues = <<1>>
    /\ isRolling = FALSE
    /\ total = NULL
    /\ audioCtxRef = "null"
    /\ timerRef = 0
    /\ elapsed = 0
    /\ timers = {}
    /\ effectPending = TRUE
    /\ mounted = TRUE
    /\ audioAvailable \in BOOLEAN
    /\ speechAvailable \in BOOLEAN
    /\ error = FALSE
    /\ lastOp = "init"
    /\ lastIncrement = 0
    /\ isWin = "none"
    /\ spoken = FALSE
    /\ soundPlayed = FALSE
    /\ finalValues = <<>>
    /\ ctxCreated = 0
    /\ hadTotal = FALSE

Next ==
    \/ \E increment \in Increments : handleAdjustDice(increment)
    \/ numDiceEffect
    \/ rollDice
    \/ TimerFire
    \/ Unmount

Spec == Init /\ [][Next]_vars

\* the host's event loop runs every timeout that stays pending
LiveSpec == Init /\ [][Next]_vars /\ WF_vars(TimerFire)

TypeOK ==
    /\ numDice \in Int
    /\ isRolling \in BOOLEAN
    /\ total \in Int
    /\ audioCtxRef \in {"null", "running", "closed"}
    /\ lastOp \in {"init", "adjust", "effect", "roll", "tick", "finish", "unmount"}
    /\ isWin \in {"none", "win", "lose"}

\* ---- properties --------------------------------------------------------

\* C1: while isRolling is true, a call of handleAdjustDice (any increment)
\* or of rollDice changes nothing: dice count, dice collection, total and
\* the rolling flag stay as they are and no further timeout is scheduled.
C1_RollingNoOps ==
    [][(isRolling /\ lastOp' \in {"adjust", "roll"})
          => UNCHANGED <<numDice, diceValues, total, isRolling,
                         timers, timerRef, elapsed>>]_vars

\* a roll is under way, a tick has already run, and rollDice was called again
C1_Witness ==
    /\ isRolling /\ lastOp = "roll" /\ elapsed > 0
    /\ Cardinality(timers) = 1

C4_NoTotalWhileRolling ==
    /\ [](isRolling => total = NULL)
    /\ [][(~isRolling /\ isRolling') => total' = NULL]_vars
    /\ [][(total' # NULL /\ total' # total) => (isRolling /\ ~isRolling')]_vars

\* a roll is under way that was started with a total on display
C4_Witness == isRolling /\ hadTotal /\ total = NULL

\* C5: a roll that is under way and not torn down reaches its completion:
\* the final draw is displayed, total is set, isRolling is false, the
\* verdict was handed to speakResult and no timeout is left pending.
C5_RollCompletes ==
    (isRolling /\ mounted)
       ~> (~mounted \/ (/\ ~isRolling
                        /\ total # NULL
                        /\ diceValues = finalValues
                        /\ isWin # "none"
                        /\ timers = {}))

\* a roll completed without the audio capability, no burst having played
C5_Witness ==
    /\ ~audioAvailable /\ ~soundPlayed
    /\ lastOp = "finish" /\ total # NULL /\ timers = {}
    /\ elapsed >= ROLL_DURATION_MS

C7_TeardownCancels ==
    /\ [](~mounted => (timers = {} /\ lastOp = "unmount"))
    /\ [][~mounted => UNCHANGED <<numDice, diceValues, total, isRolling>>]_vars

\* the component was torn down while a roll was under way
C7_Witness == ~mounted /\ isRolling /\ timerRef # 0 /\ timers = {}

\* C8: no operation raises an error for want of a platform capability.
C8_NoCapabilityError == error = FALSE

C10_CountClamped ==
    /\ [](numDice \in 1..8)
    /\ [][(lastOp' = "adjust" /\ ~isRolling) =>
            numDice' = IF numDice + lastIncrement' < 1 THEN 1
                       ELSE IF numDice + lastIncrement' > 8 THEN 8
                       ELSE numDice + lastIncrement']_vars

\* handleAdjustDice(1) was called at count 8 and the count stayed 8
C10_Witness ==
    /\ lastOp = "adjust" /\ lastIncrement = 1
    /\ numDice = MAX_DICE /\ ~effectPending

\* C11: the pass of the effect keyed on numDice turns a collection of k
\* values into one of numDice values: the first min(k, numDice) values are
\* kept in order, and every value beyond the k-th is 1.
C11_ResizeKeepsPrefix ==
    [][(effectPending /\ ~effectPending') =>
          /\ Len(diceValues') = numDice
          /\ \A i \in 1..numDice :
                diceValues'[i] = IF i <= Len(diceValues) THEN diceValues[i] ELSE 1]_vars

\* a rolled value other than 1 heads a collection grown to four dice
C11_Witness ==
    /\ lastOp = "effect" /\ numDice = 4
    /\ finalValues # <<>> /\ finalValues[1] # 1
    /\ diceValues = <<finalValues[1], 1, 1, 1>>

\* C12: at most one timeout is pending at any time, and none outside a
\* roll; a tick runs only as the single pending timeout of the roll under
\* way, so ticks neither overlap nor reach past their roll's completion
\* into a later roll.
C12_TicksSequential ==
    /\ [](Cardinality(timers) <= 1)
    /\ [](~isRolling => timers = {})
    /\ [](\A t \in timers : t.id = timerRef)
    /\ [][lastOp' \in {"tick", "finish"}
             => (isRolling /\ Cardinality(timers) = 1)]_vars

\* a shuffle tick of a later roll has just run and scheduled its successor
C12_Witness ==
    /\ isRolling /\ lastOp = "tick" /\ hadTotal
    /\ Cardinality(timers) = 1

\* C13: the dice count does not change while a roll is under way, so the
\* count captured by the pending tick (used for the final draw's length and
\* the win threshold) is the current count, and the final draw has that
\* many values.
C13_CountStableDuringRoll ==
    /\ [][isRolling => numDice' = numDice]_vars
    /\ [](\A t \in timers : t.n = numDice)
    /\ [](lastOp = "finish" => Len(finalValues) = numDice)

\* a roll has run its full duration and completed
C13_Witness ==
    /\ lastOp = "finish" /\ ~isRolling
    /\ Len(finalValues) = numDice /\ elapsed >= ROLL_DURATION_MS

\* C14: an audio context exists exactly when one was constructed, at most
\* one is ever constructed, it is constructed only by handleAdjustDice or
\* rollDice called while idle, and after teardown none is left running.
C14_AudioSingleton ==
    /\ [](ctxCreated <= 1)
    /\ []((ctxCreated = 0) <=> (audioCtxRef = "null"))
    /\ [](~mounted => audioCtxRef # "running")
    /\ [][ctxCreated' # ctxCreated
             => (~isRolling /\ lastOp' \in {"adjust", "roll"})]_vars

\* torn down after several interactions: the one context made is closed
C14_Witness ==
    /\ ~mounted /\ hadTotal /\ numDice > 1
    /\ ctxCreated = 1 /\ audioCtxRef = "closed"

\* C15: an idle handleAdjustDice whose result is clamped back to the
\* current count (+ at 8, - at 1) leaves dice count, dice collection and
\* total as they are and triggers no pass of the effect, so a present total
\* stays present.
C15_ClampedAdjustKeepsState ==
    [][(/\ lastOp' = "adjust" /\ ~isRolling
        /\ \/ (numDice = 8 /\ lastIncrement' > 0)
           \/ (numDice = 1 /\ lastIncrement' < 0))
          => (UNCHANGED <<numDice, diceValues, total>> /\ ~effectPending')]_vars

\* handleAdjustDice(-1) was called at count 1 with a total on display
C15_Witness ==
    /\ lastOp = "adjust" /\ lastIncrement = -1 /\ numDice = 1
    /\ total # NULL /\ ~effectPending /\ ~isRolling

\* C16 (as stated): whenever a result is displayed, the displayed verdict
\* (isLucky, from the current dice count) is the verdict handed to
\* speakResult when the roll completed.
C16_DisplayedEqualsSpoken ==
    ResultShown => (IsLucky <=> (isWin = "win"))

\* C16 (amended): whenever a result is displayed and the effect keyed on
\* numDice is not pending, the displayed verdict is the verdict handed to
\* speakResult when the roll completed.
C16_DisplayedEqualsSpokenSettled ==
    (ResultShown /\ ~effectPending) =>
       /\ isWin \in {"win", "lose"}
       /\ IsLucky <=> (isWin = "win")

\* a result on the win boundary is on display after a clamped adjust
C16_Witness ==
    /\ ResultShown /\ ~effectPending /\ lastOp = "adjust"
    /\ total = numDice * 3 /\ isWin = "win" /\ IsLucky

====
